---- MODULE Spec2Model ----
(***************************************************************************)
(* Model of the statistical anomaly detector of incident-manager           *)
(* (src/triggers.py: WindowTrigger) and of the way callers drive it.       *)
(*                                                                         *)
(* Python floats are binary floating-point numbers.  They are modelled as  *)
(* exact dyadic rationals m * 2^e with an odd mantissa m (or m = 0, e = 0) *)
(* of at most PrecBits bits; every arithmetic operation computes the exact *)
(* result and rounds it to PrecBits significant bits, ties to even, as     *)
(* IEEE-754 does with 53 bits.  Exponents are unbounded: the magnitudes of *)
(* the model stay far from overflow and underflow, and no value is a NaN   *)
(* or an infinity.  The builtin sum adds left to right, one rounding per   *)
(* addition.  The fields round(x, 4) stores are multiples of 10^-4 and are *)
(* kept as their integer numerators.                                       *)
(***************************************************************************)
EXTENDS Integers, Sequences, FiniteSets, TLC

\* Significant bits of a float (53 in CPython; reduced to keep numbers small).
PrecBits == 5
\* Longest series a caller builds.
MaxLen == 3

----------------------------------------------------------------------------
(* Integer helpers *)

Abs(x) == IF x < 0 THEN -x ELSE x

Sign(x) == IF x < 0 THEN -1 ELSE IF x > 0 THEN 1 ELSE 0

Min(a, b) == IF a <= b THEN a ELSE b

RECURSIVE Pow2(_)
Pow2(k) == IF k <= 0 THEN 1 ELSE 2 * Pow2(k - 1)

\* Number of bits of the natural number x (0 for x = 0).
RECURSIVE BitLen(_)
BitLen(x) == IF x = 0 THEN 0 ELSE 1 + BitLen(x \div 2)

\* Floor of the square root of the natural number x.
RECURSIVE ISqrt(_)
ISqrt(x) ==
    IF x < 2 THEN x
    ELSE LET r == 2 * ISqrt(x \div 4)
         IN  IF (r + 1) * (r + 1) <= x THEN r + 1 ELSE r

----------------------------------------------------------------------------
(* Floats *)

\* The exact dyadic rational n * 2^e in canonical form (odd mantissa).
RECURSIVE Dyadic(_, _)
Dyadic(n, e) ==
    IF n = 0 THEN [m |-> 0, e |-> 0]
    ELSE IF n % 2 = 0 THEN Dyadic(n \div 2, e + 1)
    ELSE [m |-> n, e |-> e]

\* Round sgn * (mag + s) * 2^e, where 0 <= s < 1 and s > 0 iff sticky, to
\* PrecBits significant bits, ties to even.
RoundNE(sgn, mag, e, sticky) ==
    LET shift == BitLen(mag) - PrecBits
    IN  IF shift <= 0 THEN Dyadic(sgn * mag, e)
        ELSE LET hi   == mag \div Pow2(shift)
                 lo   == mag % Pow2(shift)
                 half == Pow2(shift - 1)
                 up   == \/ lo > half
                         \/ lo = half /\ (sticky \/ hi % 2 = 1)
             IN  Dyadic(sgn * (IF up THEN hi + 1 ELSE hi), e + shift)

\* The float a as an integer multiple of 2^emin, for emin <= a.e.
Aligned(a, emin) == IF a.m = 0 THEN 0 ELSE a.m * Pow2(a.e - emin)

FAdd(a, b) ==
    LET emin == IF a.m = 0 THEN b.e ELSE IF b.m = 0 THEN a.e ELSE Min(a.e, b.e)
        n    == Aligned(a, emin) + Aligned(b, emin)
    IN  RoundNE(Sign(n), Abs(n), emin, FALSE)

FNeg(a) == [m |-> -a.m, e |-> a.e]

FSub(a, b) == FAdd(a, FNeg(b))

FMul(a, b) ==
    LET n == a.m * b.m
    IN  RoundNE(Sign(n), Abs(n), a.e + b.e, FALSE)

\* a / b for b # 0, correctly rounded.
FDiv(a, b) ==
    IF a.m = 0 THEN a
    ELSE LET k   == PrecBits + 2 + BitLen(Abs(b.m))
             num == Abs(a.m) * Pow2(k)
             q   == num \div Abs(b.m)
             r   == num % Abs(b.m)
         IN  RoundNE(Sign(a.m) * Sign(b.m), q, a.e - b.e - k, r # 0)

\* math.sqrt(a) for a >= 0, correctly rounded.
FSqrt(a) ==
    IF a.m = 0 THEN a
    ELSE LET k == 2 * PrecBits + 2 + (a.e % 2)
             N == a.m * Pow2(k)
             s == ISqrt(N)
         IN  RoundNE(1, s, (a.e - k) \div 2, s * s # N)

\* a > b
FGt(a, b) ==
    LET emin == IF a.m = 0 THEN b.e ELSE IF b.m = 0 THEN a.e ELSE Min(a.e, b.e)
    IN  Aligned(a, emin) > Aligned(b, emin)

\* int -> float conversion (exact for the small integers of the model).
FromInt(n) == RoundNE(Sign(n), Abs(n), 0, FALSE)

\* round(x, 4): the multiple of 10^-4 nearest to x, ties to even, given as
\* its integer numerator q (the stored field is q / 10^4).
Round4(a) ==
    IF a.e >= 0 THEN a.m * 10000 * Pow2(a.e)
    ELSE IF -a.e >= 30 THEN 0
    ELSE LET den == Pow2(-a.e)
             num == Abs(a.m) * 10000
             q   == num \div den
             r   == num % den
             up  == \/ 2 * r > den
                    \/ 2 * r = den /\ q % 2 = 1
         IN  Sign(a.m) * (IF up THEN q + 1 ELSE q)

----------------------------------------------------------------------------
(* Inputs *)

\* Detectors (WindowTrigger objects) a caller holds.
Det == {1, 2}

\* Detector the repeated-call observer watches.
ProbeDet == CHOOSE d \in Det : \A e \in Det : d <= e

MetricNames == {"cpu_usage", "error_rate"}

Timestamps == {1, 2}

\* Two sample values: LowVal = 11 * 2^-19 (about 0.000021) and
\* HighVal = 3 * 2^-14 (about 0.000183).
LowVal == Dyadic(11, -19)

HighVal == Dyadic(3, -14)

Vals == {LowVal, HighVal}

\* Multipliers as floats: -1.0, 0.0, 0.25, 1.0, 2.5.
MulNeg == Dyadic(-1, 0)

MulZero == Dyadic(0, 0)

MulQuarter == Dyadic(1, -2)

MulOne == Dyadic(1, 0)

MulDefault == Dyadic(5, -1)

DefaultWindow == 300

\* WindowTrigger(): the defaults of __init__, also what detect_anomalies uses.
DefaultConfig == [window_seconds |-> DefaultWindow, threshold_multiplier |-> MulDefault]

\* Arguments callers construct detectors with.
Configs ==
    { DefaultConfig,
      [window_seconds |-> DefaultWindow, threshold_multiplier |-> MulQuarter],
      [window_seconds |-> DefaultWindow, threshold_multiplier |-> MulOne],
      [window_seconds |-> 0,             threshold_multiplier |-> MulOne],
      [window_seconds |-> DefaultWindow, threshold_multiplier |-> MulZero],
      [window_seconds |-> DefaultWindow, threshold_multiplier |-> MulNeg] }

\* The configurations the specification calls valid.
ValidConfig(cfg) ==
    /\ cfg.window_seconds >= 1
    /\ FGt(cfg.threshold_multiplier, MulZero)

\* Outcome of a call: the list it returned, or the exception it raised.
Returned(list) == [status |-> "returned", anomalies |-> list]

Raised(exc) == [status |-> exc, anomalies |-> <<>>]

\* Value of a variable that holds the outcome of no call.
NoCall == [status |-> "none", anomalies |-> <<>>]

----------------------------------------------------------------------------
(* WindowTrigger.check *)

\* values = [v for _, v in series]
Values(series) == [i \in 1..Len(series) |-> series[i][2]]

\* The builtin sum: start at int 0, add the items left to right.
RECURSIVE Sum(_)
Sum(xs) ==
    IF xs = <<>> THEN FromInt(0)
    ELSE FAdd(Sum(SubSeq(xs, 1, Len(xs) - 1)), xs[Len(xs)])

\* mean = sum(values) / n
Mean(values) == FDiv(Sum(values), FromInt(Len(values)))

\* (v - mean) ** 2
SqDev(v, mean) == LET d == FSub(v, mean) IN FMul(d, d)

\* Variant: the sample variance, divisor n - 1.
VarianceSample(values, mean) ==
    FDiv(Sum([i \in 1..Len(values) |-> SqDev(values[i], mean)]),
         FromInt(Len(values) - 1))

\* variance = sum((v - mean) ** 2 for v in values) / n
Variance(values, mean) ==
    FDiv(Sum([i \in 1..Len(values) |-> SqDev(values[i], mean)]),
         FromInt(Len(values)))

\* std = math.sqrt(variance)
Std(variance) == FSqrt(variance)

\* Variant: the band below the mean, mean - multiplier * std.
ThresholdBelow(self, mean, std) ==
    FSub(mean, FMul(self.threshold_multiplier, std))

\* threshold = mean + self.threshold_multiplier * std
Threshold(self, mean, std) ==
    FAdd(mean, FMul(self.threshold_multiplier, std))

\* if val > threshold
Exceeds(val, threshold) == FGt(val, threshold)

\* MetricAnomaly(metric_name=..., value=round(val, 4), threshold=round(threshold, 4), ...)
MetricAnomaly(self, metric_name, ts, val, threshold) ==
    [metric_name    |-> metric_name,
     value          |-> Round4(val),
     threshold      |-> Round4(threshold),
     timestamp      |-> ts,
     window_seconds |-> self.window_seconds]

\* Insert record r into the list rs, kept in timestamp order.
RECURSIVE InsertByTimestamp(_, _)
InsertByTimestamp(r, rs) ==
    IF rs = <<>> THEN <<r>>
    ELSE IF r.timestamp < Head(rs).timestamp THEN <<r>> \o rs
    ELSE <<Head(rs)>> \o InsertByTimestamp(r, Tail(rs))

RECURSIVE SortByTimestamp(_)
SortByTimestamp(rs) ==
    IF rs = <<>> THEN <<>>
    ELSE InsertByTimestamp(rs[Len(rs)], SortByTimestamp(SubSeq(rs, 1, Len(rs) - 1)))

\* The scan proper, as a helper of the variants below.
RECURSIVE ScanWith(_, _, _, _)
ScanWith(self, metric_name, series, threshold) ==
    IF series = <<>> THEN <<>>
    ELSE LET rest == ScanWith(self, metric_name, Tail(series), threshold)
         IN  IF FGt(Head(series)[2], threshold)
             THEN <<[metric_name    |-> metric_name,
                     value          |-> Round4(Head(series)[2]),
                     threshold      |-> Round4(threshold),
                     timestamp      |-> Head(series)[1],
                     window_seconds |-> self.window_seconds]>> \o rest
             ELSE rest

\* Variant: the anomalies are returned sorted by timestamp.
ScanSorted(self, metric_name, series, threshold) ==
    SortByTimestamp(ScanWith(self, metric_name, series, threshold))

\* Variant: each point is compared with the threshold of the points up to
\* and including it (a running window) once there are two of them.
ScanRunning(self, metric_name, series, threshold) ==
    LET vals(i) == [k \in 1..i |-> series[k][2]]
        mu(i)   == FDiv(Sum(vals(i)), FromInt(i))
        var(i)  == FDiv(Sum([k \in 1..i |-> FMul(FSub(series[k][2], mu(i)),
                                                 FSub(series[k][2], mu(i)))]),
                        FromInt(i))
        th(i)   == IF i < 2 THEN threshold
                   ELSE FAdd(mu(i), FMul(self.threshold_multiplier, FSqrt(var(i))))
        rec(i)  == ScanWith(self, metric_name, <<series[i]>>, th(i))
        all[i \in 0..Len(series)] == IF i = 0 THEN <<>> ELSE all[i - 1] \o rec(i)
    IN  all[Len(series)]

\* anomalies = []; for ts, val in series: if val > threshold: anomalies.append(...)
RECURSIVE Scan(_, _, _, _)
Scan(self, metric_name, series, threshold) ==
    IF series = <<>> THEN <<>>
    ELSE LET ts  == Head(series)[1]
             val == Head(series)[2]
             rest == Scan(self, metric_name, Tail(series), threshold)
         IN  IF Exceeds(val, threshold)
             THEN <<MetricAnomaly(self, metric_name, ts, val, threshold)>> \o rest
             ELSE rest

\* Variant: no guard on the length of the series.
TooShortNever(series) == FALSE

\* if len(series) < 2: return []
TooShort(series) == Len(series) < 2

\* The outcome of check(metric_name, series): the early return, the
\* division by n = len(values), or the scan with the series-wide threshold.
CheckResult(self, metric_name, series) ==
    IF TooShort(series) THEN Returned(<<>>)
    ELSE IF Len(series) = 0 THEN Raised("ZeroDivisionError")
    ELSE LET values    == Values(series)
             mean      == Mean(values)
             variance  == Variance(values, mean)
             std       == Std(variance)
             threshold == Threshold(self, mean, std)
         IN  Returned(Scan(self, metric_name, series, threshold))

----------------------------------------------------------------------------
(* generate_mock_timeseries and detect_anomalies *)

\* Points per generated series (the parameter n of generate_mock_timeseries).
MockLen == 8

\* metrics = [...] of detect_anomalies, in the order of the loop.
Metrics ==
    <<"cpu_usage", "error_rate", "latency_p99", "checkout_latency_p99",
      "heap_usage_mb">>

\* base = {...}.get(metric_name, 50.0)
Base(metric_name) ==
    CASE metric_name = "cpu_usage"            -> FromInt(40)
      [] metric_name = "error_rate"           -> Dyadic(1, -1)
      [] metric_name = "latency_p99"          -> FromInt(120)
      [] metric_name = "checkout_latency_p99" -> FromInt(210)
      [] metric_name = "heap_usage_mb"        -> FromInt(512)
      [] OTHER                                -> FromInt(50)

\* noise_scale = base * 0.05
NoiseScale(base) == FMul(base, FDiv(FromInt(5), FromInt(100)))

\* int(n * 0.9)
SpikeStart(n) == (n * 9) \div 10

\* The spike of point i (0 <= i < n) of a metric.
Spike(metric_name, base, i, n) ==
    IF metric_name = "checkout_latency_p99"
    THEN IF i >= SpikeStart(n) THEN FromInt(1800) ELSE FromInt(0)
    ELSE IF metric_name = "heap_usage_mb"
    THEN FMul(FDiv(FromInt(i), FromInt(n)), FromInt(1300))
    ELSE IF i >= SpikeStart(n) THEN FMul(base, FromInt(3)) ELSE FromInt(0)

\* random.gauss(0, noise_scale) for the n points of one series: the draws,
\* in units of noise_scale, are one of these patterns.
Calm(i) == 0

Ripple(i) == IF i % 2 = 0 THEN 1 ELSE -1

Storm(i) == IF i % 2 = 0 THEN 30 ELSE -30

Draws == {"calm", "ripple", "storm"}

Gauss(draw, i, noise_scale) ==
    LET z == CASE draw = "calm"   -> Calm(i)
               [] draw = "ripple" -> Ripple(i)
               [] draw = "storm"  -> Storm(i)
    IN  FMul(FromInt(z), noise_scale)

\* generate_mock_timeseries(metric_name, n) called at time now (seconds),
\* with the given noise draws.
generate_mock_timeseries(metric_name, n, now, draw) ==
    LET base        == Base(metric_name)
        noise_scale == NoiseScale(base)
    IN  [k \in 1..n |->
            LET i     == k - 1
                ts    == now - (n - i) * 60
                noise == Gauss(draw, i, noise_scale)
                spike == Spike(metric_name, base, i, n)
            IN  <<ts, FAdd(FAdd(base, noise), spike)>>]

----------------------------------------------------------------------------
(* State *)

VARIABLES
    trigger,    \* trigger[d]: the fields of detector d
    metric,     \* the metric the caller is working on
    series,     \* the caller's list of (timestamp, value) points
    ret,        \* ret[d]: outcome of detector d's call on the current series
    built,      \* history: the configuration detector d was constructed with
    supplied,   \* history: the series as the caller built it
    seen,       \* history: calls of ProbeDet with the probe arguments
    pc,             \* main: the statement main is at
    clock,          \* main: the time datetime.utcnow() last returned (seconds)
    todo,           \* detect_anomalies: the metrics its loop has yet to visit
    all_anomalies,  \* detect_anomalies: the records collected so far
    frame,          \* main: its local variables
    calls           \* history: calls and outcomes of the four steps of main

mainvars == <<pc, clock, todo, all_anomalies, frame, calls>>

vars == <<trigger, metric, series, ret, built, supplied, seen, mainvars>>

\* A local variable that has not been assigned, and one that holds v.
Unbound == <<>>

Bound(v) == <<v>>

\* The arguments whose repeated calls are compared.
ProbeMetric == "error_rate"

ProbeSeries == << <<2, HighVal>>, <<1, LowVal>>, <<1, HighVal>> >>

SeenNothing == [first |-> NoCall, between |-> FALSE, again |-> FALSE]

Init ==
    /\ trigger = [d \in Det |-> DefaultConfig]
    /\ metric = "cpu_usage"
    /\ series = <<>>
    /\ ret = [d \in Det |-> NoCall]
    /\ built = [d \in Det |-> DefaultConfig]
    /\ supplied = <<>>
    /\ seen = SeenNothing
    /\ pc = "detect"
    /\ clock = 0
    /\ todo = Metrics
    /\ all_anomalies = <<>>
    /\ frame = [anomalies |-> Unbound, triggered_at |-> Unbound,
                window_start |-> Unbound, window_end |-> Unbound,
                metrics_summary |-> Unbound, log_summary |-> Unbound,
                rca |-> Unbound]
    /\ calls = <<>>

\* trigger = WindowTrigger(window_seconds, threshold_multiplier)
Construct(d, cfg) ==
    /\ trigger' = [trigger EXCEPT ![d] =
                     [window_seconds       |-> cfg.window_seconds,
                      threshold_multiplier |-> cfg.threshold_multiplier]]
    /\ built' = [built EXCEPT ![d] = cfg]
    /\ ret' = [ret EXCEPT ![d] = NoCall]
    /\ seen' = IF d = ProbeDet THEN SeenNothing ELSE seen
    /\ UNCHANGED <<metric, series, supplied>>
    /\ UNCHANGED mainvars

\* The caller starts the series of a metric: series = []
NewSeries(m) ==
    /\ metric' = m
    /\ series' = <<>>
    /\ supplied' = <<>>
    /\ ret' = [d \in Det |-> NoCall]
    /\ UNCHANGED <<trigger, built, seen>>
    /\ UNCHANGED mainvars

\* series.append((ts, value)), before the series is handed to a detector
AppendPoint(ts, val) ==
    /\ Len(series) < MaxLen
    /\ \A d \in Det : ret[d] = NoCall
    /\ series' = Append(series, <<ts, val>>)
    /\ supplied' = Append(supplied, <<ts, val>>)
    /\ UNCHANGED <<trigger, metric, ret, built, seen>>
    /\ UNCHANGED mainvars

\* History of the calls of ProbeDet, updated by a call that returned r.
Observe(d, r) ==
    IF d # ProbeDet THEN seen
    ELSE IF metric = ProbeMetric /\ series = ProbeSeries
         THEN IF seen.first = NoCall
              THEN [seen EXCEPT !.first = r]
              ELSE [seen EXCEPT !.again = seen.between]
         ELSE IF seen.first # NoCall
              THEN [seen EXCEPT !.between = TRUE]
              ELSE seen

\* Variant: check keeps state, it raises its own multiplier after a call.
CheckDrifting(d) ==
    /\ ret' = [ret EXCEPT ![d] = CheckResult(trigger[d], metric, series)]
    /\ seen' = Observe(d, ret'[d])
    /\ trigger' = [trigger EXCEPT ![d].threshold_multiplier = FAdd(@, MulOne)]
    /\ UNCHANGED <<metric, series, built, supplied>>
    /\ UNCHANGED mainvars

\* The points of a list ordered by timestamp (list.sort on the pairs' keys).
RECURSIVE SortPoints(_)
SortPoints(ps) ==
    IF Len(ps) < 2 THEN ps
    ELSE LET init == SortPoints(SubSeq(ps, 1, Len(ps) - 1))
             p    == ps[Len(ps)]
             k    == Cardinality({i \in 1..Len(init) : init[i][1] <= p[1]})
         IN  SubSeq(init, 1, k) \o <<p>> \o SubSeq(init, k + 1, Len(init))

\* Variant: check sorts the caller's list in place before it scans it.
CheckSortingInPlace(d) ==
    /\ series' = SortPoints(series)
    /\ ret' = [ret EXCEPT ![d] = CheckResult(trigger[d], metric, series')]
    /\ seen' = Observe(d, ret'[d])
    /\ UNCHANGED <<trigger, metric, built, supplied>>
    /\ UNCHANGED mainvars

\* all_anomalies.extend(trigger.check(metric, series))
Check(d) ==
    /\ ret' = [ret EXCEPT ![d] = CheckResult(trigger[d], metric, series)]
    /\ seen' = Observe(d, ret'[d])
    /\ UNCHANGED <<trigger, metric, series, built, supplied>>
    /\ UNCHANGED mainvars

Next ==
    \/ \E d \in Det, cfg \in Configs : Construct(d, cfg)
    \/ \E m \in MetricNames : NewSeries(m)
    \/ \E ts \in Timestamps, val \in Vals : AppendPoint(ts, val)
    \/ \E d \in Det : Check(d)

Spec == Init /\ [][Next]_vars

----------------------------------------------------------------------------
(* The same caller with generated series: n - 1 points around a base value *)
(* and spikes, timestamps rising with the index.                           *)

\* Two values one standard deviation apart when they form a series of two:
\* 16.0 and 21.0.
BaseVal == FromInt(16)

SpikeVal == FromInt(21)

GeneratedVals == {BaseVal, SpikeVal}

\* series.append((ts, base + noise + spike)) with ts = now - (n - i) * 60:
\* the timestamps rise with the index i.
AppendGenerated(val) ==
    /\ Len(series) < MaxLen
    /\ \A d \in Det : ret[d] = NoCall
    /\ series' = Append(series, <<Len(series) + 1, val>>)
    /\ supplied' = Append(supplied, <<Len(series) + 1, val>>)
    /\ UNCHANGED <<trigger, metric, ret, built, seen>>
    /\ UNCHANGED mainvars

GeneratedNext ==
    \/ \E d \in Det, cfg \in Configs : Construct(d, cfg)
    \/ \E m \in MetricNames : NewSeries(m)
    \/ \E val \in GeneratedVals : AppendGenerated(val)
    \/ \E d \in Det : Check(d)

GeneratedSpec == Init /\ [][GeneratedNext]_vars

----------------------------------------------------------------------------
(* main: detect, then metrics agent, logs agent, commander agent, upload *)

\* datetime.isoformat(): the date and the time of day of t (seconds).
Isoformat(t) == [date |-> t \div 86400, time |-> t % 86400]

\* timedelta(minutes=30), in seconds
ThirtyMinutes == 30 * 60

\* Variant: the earliest timestamp among the anomalies.
TriggeredAtEarliest(anomalies) ==
    LET ts == {anomalies[k].timestamp : k \in 1..Len(anomalies)}
    IN  CHOOSE t \in ts : \A u \in ts : t <= u

\* max(a.timestamp for a in anomalies)
TriggeredAt(anomalies) ==
    LET ts == {anomalies[k].timestamp : k \in 1..Len(anomalies)}
    IN  CHOOSE t \in ts : \A u \in ts : t >= u

\* A step of main is called with args; it returns or raises.
Call(step, args) ==
    calls' = Append(calls, [step |-> step, event |-> "call", args |-> args])

Outcome(step, event) ==
    calls' = Append(calls, [step |-> step, event |-> event, args |-> <<>>])

\* One round of the loop of detect_anomalies:
\*   series = generate_mock_timeseries(metric)
\*   all_anomalies.extend(trigger.check(metric, series))
\* The clock may have advanced by tick since the previous round.
DetectMetric(tick, draw) ==
    /\ pc = "detect"
    /\ todo # <<>>
    /\ LET now    == clock + tick
           mock   == generate_mock_timeseries(Head(todo), MockLen, now, draw)
           result == CheckResult(DefaultConfig, Head(todo), mock)
       IN  /\ clock' = now
           /\ all_anomalies' = all_anomalies \o result.anomalies
    /\ todo' = Tail(todo)
    /\ UNCHANGED <<pc, frame, calls>>
    /\ UNCHANGED <<trigger, metric, series, ret, built, supplied, seen>>

\* anomalies = detect_anomalies(); if not anomalies: return; otherwise
\* triggered_at, window_start and window_end are computed.
Triage ==
    /\ pc = "detect"
    /\ todo = <<>>
    /\ IF all_anomalies = <<>>
       THEN /\ frame' = [frame EXCEPT !.anomalies = Bound(all_anomalies)]
            /\ pc' = "done"
       ELSE LET triggered_at == TriggeredAt(all_anomalies)
            IN  /\ frame' = [frame EXCEPT
                     !.anomalies = Bound(all_anomalies),
                     !.triggered_at = Bound(triggered_at),
                     !.window_start =
                         Bound(Isoformat(triggered_at - ThirtyMinutes)),
                     !.window_end = Bound(Isoformat(triggered_at))]
                /\ pc' = "metrics"
    /\ UNCHANGED <<clock, todo, all_anomalies, calls>>
    /\ UNCHANGED <<trigger, metric, series, ret, built, supplied, seen>>

\* metrics_summary = await run_metrics_agent(anomalies): the call
CallMetricsAgent ==
    /\ pc = "metrics"
    /\ Call("run_metrics_agent", <<frame.anomalies[1]>>)
    /\ pc' = "await_metrics"
    /\ UNCHANGED <<clock, todo, all_anomalies, frame>>
    /\ UNCHANGED <<trigger, metric, series, ret, built, supplied, seen>>

\* ... and its completion: the agent returns its output, or agent.run raises
\* and the exception leaves main.
MetricsAgentDone(event) ==
    /\ pc = "await_metrics"
    /\ Outcome("run_metrics_agent", event)
    /\ IF event = "return"
       THEN /\ frame' = [frame EXCEPT !.metrics_summary = Bound("summary")]
            /\ pc' = "logs"
       ELSE /\ pc' = "raised"
            /\ UNCHANGED frame
    /\ UNCHANGED <<clock, todo, all_anomalies>>
    /\ UNCHANGED <<trigger, metric, series, ret, built, supplied, seen>>

\* log_summary = await run_logs_agent(window_start, window_end)
CallLogsAgent ==
    /\ pc = "logs"
    /\ Call("run_logs_agent", <<frame.window_start[1], frame.window_end[1]>>)
    /\ pc' = "await_logs"
    /\ UNCHANGED <<clock, todo, all_anomalies, frame>>
    /\ UNCHANGED <<trigger, metric, series, ret, built, supplied, seen>>

LogsAgentDone(event) ==
    /\ pc = "await_logs"
    /\ Outcome("run_logs_agent", event)
    /\ IF event = "return"
       THEN /\ frame' = [frame EXCEPT !.log_summary = Bound("log_summary")]
            /\ pc' = "commander"
       ELSE /\ pc' = "raised"
            /\ UNCHANGED frame
    /\ UNCHANGED <<clock, todo, all_anomalies>>
    /\ UNCHANGED <<trigger, metric, series, ret, built, supplied, seen>>

\* context = IncidentContext(anomalies, log_summary, triggered_at)
\* rca = await run_commander_agent(context)
CallCommanderAgent ==
    /\ pc = "commander"
    /\ Call("run_commander_agent",
            <<[anomalies    |-> frame.anomalies[1],
               log_summary  |-> frame.log_summary[1],
               triggered_at |-> frame.triggered_at[1]]>>)
    /\ pc' = "await_commander"
    /\ UNCHANGED <<clock, todo, all_anomalies, frame>>
    /\ UNCHANGED <<trigger, metric, series, ret, built, supplied, seen>>

CommanderAgentDone(event) ==
    /\ pc = "await_commander"
    /\ Outcome("run_commander_agent", event)
    /\ IF event = "return"
       THEN /\ frame' = [frame EXCEPT !.rca = Bound("rca")]
            /\ pc' = "upload"
       ELSE /\ pc' = "raised"
            /\ UNCHANGED frame
    /\ UNCHANGED <<clock, todo, all_anomalies>>
    /\ UNCHANGED <<trigger, metric, series, ret, built, supplied, seen>>

\* upload_to_gcs(local_rca_path): the call
CallUpload ==
    /\ pc = "upload"
    /\ Call("upload_to_gcs", <<frame.rca[1]>>)
    /\ pc' = "await_upload"
    /\ UNCHANGED <<clock, todo, all_anomalies, frame>>
    /\ UNCHANGED <<trigger, metric, series, ret, built, supplied, seen>>

\* ... and its completion: it returns (upload skipped, done or failed with a
\* message), or subprocess.run raises; main ends either way.
UploadDone(event) ==
    /\ pc = "await_upload"
    /\ Outcome("upload_to_gcs", event)
    /\ pc' = IF event = "return" THEN "done" ELSE "raised"
    /\ UNCHANGED <<clock, todo, all_anomalies, frame>>
    /\ UNCHANGED <<trigger, metric, series, ret, built, supplied, seen>>

Events == {"return", "raise"}

Ticks == {0, 1}

MainNext ==
    \/ \E tick \in Ticks, draw \in Draws : DetectMetric(tick, draw)
    \/ Triage
    \/ CallMetricsAgent
    \/ \E event \in Events : MetricsAgentDone(event)
    \/ CallLogsAgent
    \/ \E event \in Events : LogsAgentDone(event)
    \/ CallCommanderAgent
    \/ \E event \in Events : CommanderAgentDone(event)
    \/ CallUpload
    \/ \E event \in Events : UploadDone(event)

MainSpec == Init /\ [][MainNext]_vars

----------------------------------------------------------------------------
(* Properties *)

\* Detectors that have returned from a call on the current series.
Called == {d \in Det : ret[d].status = "returned"}

\* a is a subsequence of b: a is b with some elements left out.
RECURSIVE IsSubSeq(_, _)
IsSubSeq(a, b) ==
    IF a = <<>> THEN TRUE
    ELSE IF b = <<>> THEN FALSE
    ELSE IF Head(a) = Head(b) THEN IsSubSeq(Tail(a), Tail(b))
    ELSE IsSubSeq(a, Tail(b))

\* The (timestamp, stored value) pairs of a list of records, and of a series.
RecordPoints(rs) == [i \in 1..Len(rs) |-> <<rs[i].timestamp, rs[i].value>>]

SeriesPoints(ps) == [i \in 1..Len(ps) |-> <<ps[i][1], Round4(ps[i][2])>>]

\* mean + m * std of the values vs, std the root of the population variance
\* (divisor n), every operation in float arithmetic, sums taken left to right.
PopulationThreshold(m, vs) ==
    LET n == Len(vs)
        total[i \in 0..n] ==
            IF i = 0 THEN FromInt(0) ELSE FAdd(total[i - 1], vs[i])
        mu == FDiv(total[n], FromInt(n))
        sq[i \in 0..n] ==
            IF i = 0 THEN FromInt(0)
            ELSE FAdd(sq[i - 1], FMul(FSub(vs[i], mu), FSub(vs[i], mu)))
        sigma == FSqrt(FDiv(sq[n], FromInt(n)))
    IN  FAdd(mu, FMul(m, sigma))

AllSameValue(ps) == \A i, j \in 1..Len(ps) : ps[i][2] = ps[j][2]

\* C1: every record returned stores a value strictly greater than the
\* threshold it stores (both rounded to 4 digits).  Stated for the validly
\* configured detectors and the series with two different values, so that a
\* violation rests neither on an invalid configuration (C2) nor on the
\* rounding of the mean of a constant series (C6).
C1_StoredValueAboveStoredThreshold ==
    \A d \in Called :
        (ValidConfig(trigger[d]) /\ ~AllSameValue(series)) =>
            \A i \in 1..Len(ret[d].anomalies) :
                ret[d].anomalies[i].value > ret[d].anomalies[i].threshold

\* C2: no detector exists whose window_seconds is below 1 or whose
\* threshold_multiplier is not positive: constructing one fails.
C2_NoInvalidDetector ==
    \A d \in Det : ValidConfig(trigger[d])

\* C3: for a series of at least 2 points the returned list holds exactly one
\* record per point whose value is strictly greater than mean + multiplier *
\* population std (float arithmetic), in order, with the rounded value, the
\* rounded threshold, the metric name and the window; no other record.
C3_FlagsExactlyPointsAboveThreshold ==
    \A d \in Det :
        (ret[d] # NoCall /\ Len(series) >= 2) =>
            LET T == PopulationThreshold(trigger[d].threshold_multiplier,
                                         [i \in 1..Len(series) |-> series[i][2]])
                Above(p) == FGt(p[2], T)
                sel == SelectSeq(series, Above)
                out == ret[d].anomalies
            IN  /\ ret[d].status = "returned"
                /\ Len(out) = Len(sel)
                /\ \A i \in 1..Len(sel) :
                      out[i] = [metric_name    |-> metric,
                                value          |-> Round4(sel[i][2]),
                                threshold      |-> Round4(T),
                                timestamp      |-> sel[i][1],
                                window_seconds |-> trigger[d].window_seconds]

\* A call on a series of 3 points flagged a point and left a point whose
\* value is below the threshold unflagged.
C3_Witness ==
    \E d \in Called :
        /\ Len(series) = 3
        /\ Len(ret[d].anomalies) = 1
        /\ ValidConfig(trigger[d])

\* C4: the returned records are in the order of their points in the input
\* series (an order-preserving subsequence), sorted input or not.
C4_OutputIsSubsequenceOfInput ==
    \A d \in Called :
        IsSubSeq(RecordPoints(ret[d].anomalies), SeriesPoints(series))

\* Two records were returned for a series given in descending timestamp
\* order, and their timestamps descend too.
C4_Witness ==
    \E d \in Called :
        /\ Len(ret[d].anomalies) = 2
        /\ ret[d].anomalies[1].timestamp > ret[d].anomalies[2].timestamp

\* C5: a call on a series of fewer than 2 points returns the empty list and
\* raises nothing, whatever the configuration and the value.
C5_ShortSeriesReturnsEmpty ==
    \A d \in Det :
        (ret[d] # NoCall /\ Len(series) < 2) => ret[d] = Returned(<<>>)

\* Both detectors, one of them with an invalid configuration, have returned
\* from a call on a one-point series.
C5_Witness ==
    /\ Len(series) = 1
    /\ \A d \in Det : ret[d] = Returned(<<>>)
    /\ \E d \in Det : ~ValidConfig(trigger[d])

\* C6: a validly configured detector returns the empty list for a series of
\* 2 or more points whose values are all identical.
C6_ConstantSeriesReturnsEmpty ==
    \A d \in Called :
        (ValidConfig(trigger[d]) /\ Len(series) >= 2 /\ AllSameValue(series))
            => ret[d].anomalies = <<>>

\* C7: all records of one call carry the same threshold.
C7_OneThresholdPerCall ==
    \A d \in Called :
        \A i, j \in 1..Len(ret[d].anomalies) :
            ret[d].anomalies[i].threshold = ret[d].anomalies[j].threshold

\* A call returned two records for points of different values.
C7_Witness ==
    \E d \in Called :
        /\ Len(ret[d].anomalies) >= 2
        /\ Len(series) = 3
        /\ ValidConfig(trigger[d])

\* C8: a call of ProbeDet with the probe arguments returns what its first
\* call with these arguments returned, whatever calls came in between.
C8_RepeatedCallSameOutput ==
    (/\ metric = ProbeMetric
     /\ series = ProbeSeries
     /\ ret[ProbeDet] # NoCall
     /\ seen.first # NoCall) => ret[ProbeDet] = seen.first

\* ProbeDet was called with the probe arguments, then with other arguments,
\* then with the probe arguments again, and returned the same non-empty list.
C8_Witness ==
    /\ metric = ProbeMetric
    /\ series = ProbeSeries
    /\ seen.again
    /\ ret[ProbeDet] = seen.first
    /\ ret[ProbeDet].anomalies # <<>>

\* C9: calls leave the caller's series as the caller built it and every
\* detector with exactly the two fields it was constructed with.
C9_CheckMutatesNothing ==
    /\ series = supplied
    /\ \A d \in Det :
        /\ DOMAIN trigger[d] = {"window_seconds", "threshold_multiplier"}
        /\ trigger[d] = [window_seconds       |-> built[d].window_seconds,
                         threshold_multiplier |-> built[d].threshold_multiplier]

\* Both detectors, one of them not the default one, have returned from calls
\* on a series that is not sorted by timestamp.
C9_Witness ==
    /\ Called = Det
    /\ Len(series) = 3
    /\ series[1][1] > series[2][1]
    /\ trigger[1] # DefaultConfig
    /\ ret[1].anomalies # <<>>

\* C10: of two validly configured detectors with the same window called on
\* the same series, the one with the higher multiplier flags a sub-list of
\* the points the other flags.
C10_HigherMultiplierFlagsSubset ==
    \A d1, d2 \in Called :
        (/\ ValidConfig(trigger[d1])
         /\ ValidConfig(trigger[d2])
         /\ trigger[d1].window_seconds = trigger[d2].window_seconds
         /\ ~FGt(trigger[d1].threshold_multiplier, trigger[d2].threshold_multiplier))
            => /\ Len(ret[d2].anomalies) <= Len(ret[d1].anomalies)
               /\ IsSubSeq(RecordPoints(ret[d2].anomalies),
                           RecordPoints(ret[d1].anomalies))

\* The detector with the lower multiplier flagged two points and the one with
\* the higher multiplier flagged none.
C10_Witness ==
    \E d1, d2 \in Called :
        /\ ValidConfig(trigger[d1])
        /\ ValidConfig(trigger[d2])
        /\ FGt(trigger[d2].threshold_multiplier, trigger[d1].threshold_multiplier)
        /\ Len(ret[d1].anomalies) = 2
        /\ Len(ret[d2].anomalies) = 0

\* C13: a detector with a non-negative multiplier never flags every point of
\* a non-empty series: it returns fewer records than the series has points.
\* Stated for the validly configured detectors (multiplier > 0), so that a
\* violation does not rest on an invalid configuration (C2).
C13_NeverFlagsEveryPoint ==
    \A d \in Called :
        (ValidConfig(trigger[d]) /\ Len(series) >= 1)
            => Len(ret[d].anomalies) < Len(series)

\* The exact square of a float (not rounded).
ExactSquare(a) == Dyadic(a.m * a.m, 2 * a.e)

\* k > mul * mul, exactly.
ExceedsSquare(k, mul) == FGt(Dyadic(k, 0), ExactSquare(mul))

\* Index of the one point of ps that is strictly larger than all the others,
\* which are equal; 0 if ps is not of that shape.
OutlierIndex(ps) ==
    LET cand == {i \in 1..Len(ps) :
                    /\ \A j, k \in 1..Len(ps) \ {i} : ps[j][2] = ps[k][2]
                    /\ \A j \in 1..Len(ps) \ {i} : FGt(ps[i][2], ps[j][2])}
    IN  IF Len(ps) >= 2 /\ cand # {} THEN CHOOSE i \in cand : TRUE ELSE 0

\* C11: for a series of n - 1 equal values and one strictly larger value, a
\* validly configured detector with multiplier m returns exactly one record,
\* for the larger point, when n - 1 > m * m, and the empty list otherwise.
C11_SingleOutlierFlaggedIffEnoughPoints ==
    \A d \in Called :
        LET i == OutlierIndex(series)
            out == ret[d].anomalies
        IN  (ValidConfig(trigger[d]) /\ i # 0) =>
                IF ExceedsSquare(Len(series) - 1, trigger[d].threshold_multiplier)
                THEN /\ Len(out) = 1
                     /\ out[1].timestamp = series[i][1]
                     /\ out[1].value = Round4(series[i][2])
                ELSE out = <<>>

\* C12: a validly configured detector with multiplier m returns the empty
\* list for every series of n points with n - 1 <= m * m.
C12_TooFewPointsNeverFlag ==
    \A d \in Called :
        (/\ ValidConfig(trigger[d])
         /\ ~ExceedsSquare(Len(series) - 1, trigger[d].threshold_multiplier))
            => ret[d].anomalies = <<>>

\* The four steps of main in the order the claim gives them.
StepOrder ==
    <<"run_metrics_agent", "run_logs_agent", "run_commander_agent",
      "upload_to_gcs">>

\* The steps called so far, in the order of their calls.
Started == SelectSeq(calls, LAMBDA c : c.event = "call")

\* t is the latest timestamp among the records as.
IsLatest(t, as) ==
    /\ \E k \in 1..Len(as) : as[k].timestamp = t
    /\ \A k \in 1..Len(as) : as[k].timestamp <= t

C14_WitnessHealthy == pc = "done" /\ all_anomalies = <<>> /\ calls = <<>>

====
